---- MODULE Spec2Model ----
(***************************************************************************)
(* Model of src/pltt.py: one run of the Streamlit script.  A run loads a   *)
(* spreadsheet into df, classifies its columns (numeric_cols,              *)
(* datetime_cols, with the text-to-datetime coercion pass), reads the      *)
(* widgets, builds plot_ready_df (either a copy of df, or the synthetic    *)
(* cumulative frames tagged 'animation_frame') and calls plotly express.   *)
(*                                                                         *)
(* A DataFrame is [cols, dtype, rows]: the ordered column names, the dtype *)
(* of every column, and the rows in order.  A row is [idx, v]: its index   *)
(* label (a RangeIndex label, kept by sort_values/head/concat) and its     *)
(* cells by column name.  A cell is [kind, n, s]: a number, a timestamp    *)
(* (n is its position on the time axis) or a string s.                     *)
(***************************************************************************)
EXTENDS Integers, Sequences, FiniteSets, TLC

VARIABLES uploaded, df, numeric_cols, datetime_cols, plot_type, x_col,
          selected_y_cols, animation_frame, slider, start_point,
          plot_ready_df, animation_col, px_call, output, pc

vars == <<uploaded, df, numeric_cols, datetime_cols, plot_type, x_col,
          selected_y_cols, animation_frame, slider, start_point,
          plot_ready_df, animation_col, px_call, output, pc>>

\* ---------------------------------------------------------------- bounds
MaxRows == 7
MaxCols == 2

\* ------------------------------------------------------------- utilities
Min(a, b) == IF a <= b THEN a ELSE b
Max(a, b) == IF a >= b THEN a ELSE b
Range(s) == {s[i] : i \in DOMAIN s}

\* ----------------------------------------------------------------- cells
Num(k) == [kind |-> "num", n |-> k, s |-> ""]
Ts(k) == [kind |-> "ts", n |-> k, s |-> ""]
Str(t) == [kind |-> "str", n |-> 0, s |-> t]

\* Date strings the parser accepts; Dates[k] parses to the timestamp Ts(k).
Dates == <<"2020-01-01", "2020-01-02", "2020-01-03", "2020-01-04", "2020-01-05">>
NotADate == "not-a-date"

\* Column names a spreadsheet can carry, in sheet order.
ColNames == <<"A", "B", "C">>
NoDf == [cols |-> <<>>, dtype |-> <<>>, rows |-> <<>>, none |-> TRUE]
EmptyDataFrame == [cols |-> <<>>, dtype |-> <<>>, rows |-> <<>>, none |-> FALSE]
None == "None"

\* ------------------------------------------------- spreadsheets (inputs)
\* What a column of an uploaded sheet can look like: its dtype after
\* read_excel and the shape of its values.
ColumnShapes ==
  { [dtype |-> "int64", pat |-> "num"],
    [dtype |-> "float64", pat |-> "num"],
    [dtype |-> "uint64", pat |-> "num"],
    [dtype |-> "datetime64[ns]", pat |-> "desc"],
    [dtype |-> "datetime64[ns]", pat |-> "pairs"],
    [dtype |-> "object", pat |-> "dates"],
    [dtype |-> "object", pat |-> "onebad"] }

\* The cell of row i (1..n) of a column of shape sh.
\*   desc:   timestamps strictly descending (out of order, no ties)
\*   pairs:  timestamps descending, equal two by two (out of order, ties)
\*   dates:  date strings, equal two by two
\*   onebad: date strings, but the last value is not a date
CellAt(sh, i, n) ==
  CASE sh.pat = "num" -> Num(i)
    [] sh.pat = "desc" -> Ts(n + 1 - i)
    [] sh.pat = "pairs" -> Ts(((n - i) \div 2) + 1)
    [] sh.pat = "dates" -> Str(Dates[((n - i) \div 2) + 1])
    [] sh.pat = "onebad" ->
         IF i = n THEN Str(NotADate) ELSE Str(Dates[((n - i) \div 2) + 1])

Sheet(shapes, n) ==
  LET k == Len(shapes)
      names == {ColNames[c] : c \in 1..k}
      pos(name) == CHOOSE c \in 1..k : ColNames[c] = name
  IN [cols |-> [c \in 1..k |-> ColNames[c]],
      dtype |-> [name \in names |-> shapes[pos(name)].dtype],
      rows |-> [i \in 1..n |->
                 [idx |-> i - 1,
                  v |-> [name \in names |-> CellAt(shapes[pos(name)], i, n)]]],
      none |-> FALSE]

\* A sheet without data rows reads as object columns only.
Sheets ==
  UNION { UNION { { Sheet(shapes, n) :
                    shapes \in { sh \in [1..k -> ColumnShapes] :
                                 n = 0 => \A c \in 1..k :
                                   sh[c] = [dtype |-> "object", pat |-> "dates"] } }
                  : n \in 0..MaxRows }
          : k \in 1..MaxCols }

\* No usable upload: uploaded_file is None, the example button was not pressed,
\* or read_excel raised.
NoFile == NoDf
NoCall == [called |-> FALSE, kind |-> None, data |-> NoDf, x |-> None, y |-> <<>>,
           animation_frame |-> None]

\* ---------------------------------------------------- column classifier
Column(d, col) == [i \in 1..Len(d.rows) |-> d.rows[i].v[col]]

\* A dtype test that misses the unit suffix of pandas' datetime dtype.
is_datetime64_exact_name(d, col) == d.dtype[col] = "datetime64"

is_datetime64_any_dtype(d, col) == d.dtype[col] = "datetime64[ns]"

select_dtypes_float64_int64(d) ==
  SelectSeq(d.cols, LAMBDA col : d.dtype[col] \in {"float64", "int64"})

Parses(cell) == cell.kind = "str" /\ \E k \in DOMAIN Dates : Dates[k] = cell.s
ParseDate(cell) == Ts(CHOOSE k \in DOMAIN Dates : Dates[k] = cell.s)

\* pd.to_datetime(df[col]) with errors='raise': the converted column, or an
\* exception when some value does not parse.
to_datetime(column) ==
  IF \A i \in DOMAIN column : Parses(column[i])
  THEN [raised |-> FALSE, values |-> [i \in DOMAIN column |-> ParseDate(column[i])]]
  ELSE [raised |-> TRUE, values |-> <<>>]

\* df[col] = test_conversion
SetColumn(d, col, values, dtype) ==
  [d EXCEPT !.dtype = [@ EXCEPT ![col] = dtype],
            !.rows = [i \in DOMAIN d.rows |->
                        [d.rows[i] EXCEPT !.v = [@ EXCEPT ![col] = values[i]]]]]

\* The coercion step with the append outside the try block.
CoerceColumn_append_outside_try(st, col) ==
  IF st.df.dtype[col] = "object"
  THEN LET test_conversion == to_datetime(Column(st.df, col))
       IN IF test_conversion.raised
          THEN [st EXCEPT !.datetime_cols = Append(@, col)]
          ELSE [df |-> SetColumn(st.df, col, test_conversion.values, "datetime64[ns]"),
                datetime_cols |-> Append(st.datetime_cols, col)]
  ELSE st

\* One iteration of "for col in df.columns" of the coercion pass.
CoerceColumn(st, col) ==
  IF st.df.dtype[col] = "object"
  THEN LET test_conversion == to_datetime(Column(st.df, col))
       IN IF test_conversion.raised
          THEN st
          ELSE [df |-> SetColumn(st.df, col, test_conversion.values, "datetime64[ns]"),
                datetime_cols |-> Append(st.datetime_cols, col)]
  ELSE st

RECURSIVE CoercePass(_, _, _)
CoercePass(st, cols, i) ==
  IF i > Len(cols) THEN st ELSE CoercePass(CoerceColumn(st, cols[i]), cols, i + 1)

NativeDatetimeCols(d) == SelectSeq(d.cols, LAMBDA col : is_datetime64_any_dtype(d, col))

\* Lines 88-100: the classification of df; df may be retyped by it.
ClassifyColumns(d) ==
  LET native == NativeDatetimeCols(d)
      st == IF native = <<>>
            THEN CoercePass([df |-> d, datetime_cols |-> native], d.cols, 1)
            ELSE [df |-> d, datetime_cols |-> native]
  IN [df |-> st.df,
      numeric_cols |-> select_dtypes_float64_int64(d),
      datetime_cols |-> st.datetime_cols]

\* ------------------------------------------------------------ the script
Init ==
  /\ uploaded \in Sheets \cup {NoFile}
  /\ df = NoDf
  /\ numeric_cols = <<>>
  /\ datetime_cols = <<>>
  /\ plot_type = None
  /\ x_col = None
  /\ selected_y_cols = <<>>
  /\ animation_frame = None
  /\ slider = [min_value |-> 0, max_value |-> 0, value |-> 0]
  /\ start_point = 0
  /\ plot_ready_df = NoDf
  /\ animation_col = None
  /\ px_call = NoCall
  /\ output = "none"
  /\ pc = "load"

\* Lines 66-79 and 82: the sheet is read into df; without a sheet df is None
\* and the instructions are shown.
LoadData ==
  /\ pc = "load"
  /\ uploaded # NoFile
  /\ df' = uploaded
  /\ pc' = "classify"
  /\ UNCHANGED <<uploaded, numeric_cols, datetime_cols, plot_type, x_col,
                 selected_y_cols, animation_frame, slider, start_point,
                 plot_ready_df, animation_col, px_call, output>>

NoData ==
  /\ pc = "load"
  /\ uploaded = NoFile
  /\ output' = "instructions"
  /\ pc' = "done"
  /\ UNCHANGED <<uploaded, df, numeric_cols, datetime_cols, plot_type, x_col,
                 selected_y_cols, animation_frame, slider, start_point,
                 plot_ready_df, animation_col, px_call>>

Classify ==
  /\ pc = "classify"
  /\ LET c == ClassifyColumns(df)
     IN /\ df' = c.df
        /\ numeric_cols' = c.numeric_cols
        /\ datetime_cols' = c.datetime_cols
  /\ pc' = "widgets"
  /\ UNCHANGED <<uploaded, plot_type, x_col, selected_y_cols, animation_frame,
                 slider, start_point, plot_ready_df, animation_col, px_call, output>>

\* ------------------------------------------------------------- widgets
PlotTypes == {"Line Chart", "Scatter Plot", "Bar Chart", "Area Chart"}

\* What st.multiselect can return for the options opts: any of them, here
\* in the order of the options.
Selections(opts) ==
  { SelectSeq(opts, LAMBDA o : o \in chosen) : chosen \in SUBSET Range(opts) }

\* Lines 107-142: plot type, x axis, y variables and animation column, and
\* the validation of the y selection.
SelectWidgets ==
  /\ pc = "widgets"
  /\ plot_type' \in PlotTypes
  /\ x_col' \in (IF datetime_cols # <<>> THEN Range(datetime_cols) ELSE Range(df.cols))
  /\ selected_y_cols' \in (IF numeric_cols # <<>> THEN Selections(numeric_cols) ELSE {<<>>})
  /\ animation_frame' \in {None} \cup Range(df.cols)
  /\ IF selected_y_cols' = <<>>
     THEN /\ output' = "Please select at least one Y-axis variable"
          /\ pc' = "done"
     ELSE /\ output' = output
          /\ pc' = "slider"
  /\ UNCHANGED <<uploaded, df, numeric_cols, datetime_cols, slider, start_point,
                 plot_ready_df, animation_col, px_call>>

\* Lines 149-154: the arguments of the "Starting point for animation" slider.
SliderArgs(d) ==
  [min_value |-> 5,
   max_value |-> Max(10, Len(d.rows) - 1),
   value |-> Min(20, Len(d.rows) - 1)]

\* The values the slider can hand back.  A default outside
\* [min_value, max_value] is either rejected (SliderRejects) or accepted
\* with the range widened to hold it, depending on the Streamlit release.
SliderValues(a) == Min(a.min_value, a.value) .. Max(a.max_value, a.value)

StartPointSlider ==
  /\ pc = "slider"
  /\ slider' = SliderArgs(df)
  /\ start_point' \in SliderValues(slider')
  /\ pc' = "prepare"
  /\ UNCHANGED <<uploaded, df, numeric_cols, datetime_cols, plot_type, x_col,
                 selected_y_cols, animation_frame, plot_ready_df, animation_col,
                 px_call, output>>

SliderRejects ==
  /\ pc = "slider"
  /\ slider' = SliderArgs(df)
  /\ ~(slider'.min_value <= slider'.value /\ slider'.value <= slider'.max_value)
  /\ output' = "StreamlitAPIException"
  /\ pc' = "done"
  /\ UNCHANGED <<uploaded, df, numeric_cols, datetime_cols, plot_type, x_col,
                 selected_y_cols, animation_frame, start_point, plot_ready_df,
                 animation_col, px_call>>

\* ------------------------------------------------------- frame expander
Key(row, by) == row.v[by].n

RemoveAt(s, i) == [j \in 1..(Len(s) - 1) |-> IF j < i THEN s[j] ELSE s[j + 1]]

\* The row orders an ascending sort by the column `by` can leave: every
\* order whose keys are non-decreasing.  sort_values is called with its
\* default kind ('quicksort'), which does not promise to keep the relative
\* order of rows with equal keys.
RECURSIVE AscendingOrders(_, _)
AscendingOrders(rows, by) ==
  IF rows = <<>> THEN {<<>>}
  ELSE LET least == {i \in DOMAIN rows :
                       \A j \in DOMAIN rows : Key(rows[i], by) <= Key(rows[j], by)}
       IN UNION { { <<rows[i]>> \o rest : rest \in AscendingOrders(RemoveAt(rows, i), by) }
                  : i \in least }

\* df.sort_values(by=x_col): the possible results.
sort_values(d, by) == { [d EXCEPT !.rows = r] : r \in AscendingOrders(d.rows, by) }

\* df.tail(i) in place of df.head(i).
head_as_tail(d, i) ==
  LET n == Len(d.rows)
      m == IF i >= 0 THEN Min(i, n) ELSE Max(n + i, 0)
  IN [d EXCEPT !.rows = SubSeq(d.rows, n - m + 1, n)]

\* df.head(i)
head(d, i) ==
  LET n == Len(d.rows)
      m == IF i >= 0 THEN Min(i, n) ELSE Max(n + i, 0)
  IN [d EXCEPT !.rows = SubSeq(d.rows, 1, m)]

FrameColumn == "animation_frame"

\* dfa['animation_frame'] = i
SetFrame(d, i) ==
  LET names == Range(d.cols) \cup {FrameColumn}
  IN [cols |-> IF FrameColumn \in Range(d.cols) THEN d.cols ELSE Append(d.cols, FrameColumn),
      dtype |-> [c \in names |-> IF c = FrameColumn THEN "int64" ELSE d.dtype[c]],
      rows |-> [r \in DOMAIN d.rows |->
                  [idx |-> d.rows[r].idx,
                   v |-> [c \in names |-> IF c = FrameColumn THEN Num(i) ELSE d.rows[r].v[c]]]],
      none |-> FALSE]

\* pd.concat([a, b]) for an accumulator a that is empty or has b's columns.
concat(a, b) ==
  IF a.cols = <<>> THEN b ELSE [a EXCEPT !.rows = a.rows \o b.rows]

\* Lines 184-188: for i in np.arange(start, obs + 1).
RECURSIVE FrameLoop(_, _, _, _)
FrameLoop(d, i, obs, acc) ==
  IF i >= obs + 1 THEN acc
  ELSE FrameLoop(d, i + 1, obs, concat(acc, SetFrame(head(d, i), i)))

\* The loop over np.arange(start, obs): the last frame is missing.
BuildFrames_exclusive(d, start) == FrameLoop(d, start, Len(d.rows) - 1, EmptyDataFrame)

BuildFrames(d, start) == FrameLoop(d, start, Len(d.rows), EmptyDataFrame)

\* The sort hoisted above the mode switch.
PrepareNatural_sorted ==
  /\ pc = "prepare"
  /\ animation_frame # None
  /\ animation_col' = animation_frame
  /\ df' \in (IF is_datetime64_any_dtype(df, x_col) THEN sort_values(df, x_col) ELSE {df})
  /\ plot_ready_df' = df'
  /\ pc' = "render"
  /\ UNCHANGED <<uploaded, numeric_cols, datetime_cols, plot_type, x_col,
                 selected_y_cols, animation_frame, slider, start_point, px_call, output>>

\* Lines 169-172: an existing column drives the animation.
PrepareNatural ==
  /\ pc = "prepare"
  /\ animation_frame # None
  /\ animation_col' = animation_frame
  /\ plot_ready_df' = df
  /\ pc' = "render"
  /\ UNCHANGED <<uploaded, df, numeric_cols, datetime_cols, plot_type, x_col,
                 selected_y_cols, animation_frame, slider, start_point, px_call, output>>

\* Lines 173-190: the synthetic frames.
PrepareSynthetic ==
  /\ pc = "prepare"
  /\ animation_frame = None
  /\ df' \in (IF is_datetime64_any_dtype(df, x_col) THEN sort_values(df, x_col) ELSE {df})
  /\ plot_ready_df' = BuildFrames(df', start_point)
  /\ animation_col' = FrameColumn
  /\ pc' = "render"
  /\ UNCHANGED <<uploaded, numeric_cols, datetime_cols, plot_type, x_col,
                 selected_y_cols, animation_frame, slider, start_point, px_call, output>>

\* ------------------------------------------------------------- rendering
\* The column names handed to plotly express.
Selected(call) == {call.x, call.animation_frame} \cup Range(call.y)

\* Lines 192-261: the call of px.line / px.scatter / px.bar / px.area.  Plotly
\* raises ValueError for a name that is no column of the data frame; the
\* except clause reports it as "Error creating plot".
RenderPlot ==
  /\ pc = "render"
  /\ px_call' = [called |-> TRUE, kind |-> plot_type, data |-> plot_ready_df,
                 x |-> x_col, y |-> selected_y_cols, animation_frame |-> animation_col]
  /\ output' = IF Selected(px_call') \subseteq Range(plot_ready_df.cols)
               THEN "plotly_chart"
               ELSE "Error creating plot"
  /\ pc' = "done"
  /\ UNCHANGED <<uploaded, df, numeric_cols, datetime_cols, plot_type, x_col,
                 selected_y_cols, animation_frame, slider, start_point,
                 plot_ready_df, animation_col>>

Next ==
  \/ LoadData
  \/ NoData
  \/ Classify
  \/ SelectWidgets
  \/ StartPointSlider
  \/ SliderRejects
  \/ PrepareNatural
  \/ PrepareSynthetic
  \/ RenderPlot

Spec == Init /\ [][Next]_vars

\* -------------------------------------------- the frame expander alone
\* The expander applied to any classified sheet (an empty one included)
\* and any start row from 1 on.
ExpandInit ==
  /\ uploaded \in Sheets
  /\ df = ClassifyColumns(uploaded).df
  /\ numeric_cols = ClassifyColumns(uploaded).numeric_cols
  /\ datetime_cols = ClassifyColumns(uploaded).datetime_cols
  /\ plot_type = "Line Chart"
  /\ x_col \in Range(df.cols)
  /\ selected_y_cols = numeric_cols
  /\ animation_frame = None
  /\ slider = [min_value |-> 0, max_value |-> 0, value |-> 0]
  /\ start_point \in 1..(MaxRows + 1)
  /\ plot_ready_df = NoDf
  /\ animation_col = None
  /\ px_call = NoCall
  /\ output = "none"
  /\ pc = "prepare"

ExpandNext == PrepareSynthetic

ExpandSpec == ExpandInit /\ [][ExpandNext]_vars

\* ---------------------------------------------------------------- claims
\* df as the classifier left it (before any sort).
Classified == pc \in {"widgets", "slider", "prepare"}
\* The synthetic frames have been built.
Expanded == pc \in {"render", "done"} /\ animation_col = FrameColumn
\* The natural animation column has been taken.
PassedThrough == pc \in {"render", "done"} /\ animation_col # None /\ animation_col # FrameColumn

FrameOf(row) == row.v[FrameColumn].n
FrameRows(k) == SelectSeq(plot_ready_df.rows, LAMBDA r : FrameOf(r) = k)
\* A row of the expanded dataset without its frame tag.
Untagged(row) == [idx |-> row.idx, v |-> [c \in Range(df.cols) |-> row.v[c]]]
FrameIds == {FrameOf(plot_ready_df.rows[i]) : i \in DOMAIN plot_ready_df.rows}
IsTimestamp(d, col) == d.dtype[col] = "datetime64[ns]"
AllParse(d, col) == \A i \in DOMAIN d.rows : d.rows[i].v[col].s \in Range(Dates)

\* C1: cumulative-prefix law.  Once the synthetic frames are built, for every
\* k in [start_point, len(df)] the rows tagged k are exactly the first k rows
\* of the (sorted) df, in order; no other frame id occurs; the frame ids never
\* decrease along the expanded dataset.
C1_CumulativePrefix ==
  Expanded =>
    LET obs == Len(df.rows)
        out == plot_ready_df.rows
    IN /\ \A k \in start_point..obs :
            LET f == FrameRows(k)
            IN [i \in DOMAIN f |-> Untagged(f[i])] = SubSeq(df.rows, 1, k)
       /\ \A i \in DOMAIN out : FrameOf(out[i]) \in start_point..obs
       /\ \A i, j \in DOMAIN out : i < j => FrameOf(out[i]) <= FrameOf(out[j])

C1_Witness ==
  /\ Expanded
  /\ Len(df.rows) = 7
  /\ start_point = 5
  /\ df.rows[1].idx # 0
  /\ Len(FrameRows(6)) = 6

\* C2: clamp.  When start_point exceeds the row count, the expansion yields
\* exactly one frame, tagged with the row count and holding all rows.
C2_Clamp ==
  (Expanded /\ start_point > Len(df.rows)) =>
    LET obs == Len(df.rows)
        f == FrameRows(obs)
    IN /\ FrameIds = {obs}
       /\ [i \in DOMAIN f |-> Untagged(f[i])] = df.rows

\* C3: sort-before-expand.  With a timestamp x column the rows are in
\* ascending order of x and rows with equal timestamps keep their original
\* relative order; with any other x column the row order is the original one.
C3_StableSortBeforeExpand ==
  Expanded =>
    LET rows == df.rows
    IN /\ {rows[i].idx : i \in DOMAIN rows} = {i - 1 : i \in DOMAIN uploaded.rows}
       /\ Len(rows) = Len(uploaded.rows)
       /\ IF IsTimestamp(df, x_col)
          THEN \A i, j \in DOMAIN rows : i < j =>
                 \/ Key(rows[i], x_col) < Key(rows[j], x_col)
                 \/ Key(rows[i], x_col) = Key(rows[j], x_col) /\ rows[i].idx < rows[j].idx
          ELSE \A i \in DOMAIN rows : rows[i].idx = i - 1

\* C4: row count.  For 1 <= start_point <= len(df) the expanded dataset has
\* start_point + ... + len(df) rows, in len(df) - start_point + 1 frames, frame
\* k of k rows; an empty dataset expands to no rows and no frames.
C4_RowCount ==
  Expanded =>
    LET n == Len(df.rows)
        s == start_point
    IN /\ (1 <= s /\ s <= n) =>
            /\ Len(plot_ready_df.rows) = ((n * (n + 1)) - ((s - 1) * s)) \div 2
            /\ FrameIds = s..n
            /\ \A k \in s..n : Len(FrameRows(k)) = k
       /\ n = 0 => (plot_ready_df.rows = <<>> /\ FrameIds = {})

C4_Witness ==
  /\ Expanded
  /\ Len(df.rows) = 7
  /\ start_point = 5
  /\ Len(plot_ready_df.rows) = 18
  /\ FrameIds = {5, 6, 7}

\* C5: all-or-nothing coercion.  Without a native timestamp column, a text
\* column is in datetime_cols, retyped to timestamp, exactly when all of its
\* values parse; a text column with a value that does not parse keeps its
\* type and values and stays out, whatever its place among the columns; no
\* other column enters datetime_cols.
C5_AllOrNothingCoercion ==
  (Classified /\ \A col \in Range(uploaded.cols) : ~IsTimestamp(uploaded, col)) =>
    /\ \A col \in Range(uploaded.cols) :
         IF uploaded.dtype[col] = "object"
         THEN IF AllParse(uploaded, col)
              THEN /\ col \in Range(datetime_cols)
                   /\ IsTimestamp(df, col)
                   /\ \A i \in DOMAIN df.rows : df.rows[i].v[col].kind = "ts"
              ELSE /\ col \notin Range(datetime_cols)
                   /\ df.dtype[col] = "object"
                   /\ Column(df, col) = Column(uploaded, col)
         ELSE /\ col \notin Range(datetime_cols)
              /\ df.dtype[col] = uploaded.dtype[col]
    /\ output = "none"

C5_Witness ==
  /\ Classified
  /\ uploaded.cols = <<"A", "B">>
  /\ uploaded.dtype["A"] = "object"
  /\ uploaded.dtype["B"] = "object"
  /\ ~AllParse(uploaded, "A")
  /\ Len(uploaded.rows) = 2
  /\ datetime_cols = <<"B">>
  /\ IsTimestamp(df, "B")

\* C6: idempotence.  Classifying the classified df again gives the same
\* datetime set and changes no column type.
C6_ClassifyIdempotent ==
  Classified =>
    LET again == ClassifyColumns(df)
    IN /\ Range(again.datetime_cols) = Range(datetime_cols)
       /\ again.df.dtype = df.dtype

C6_Witness ==
  /\ Classified
  /\ \E col \in Range(df.cols) : uploaded.dtype[col] = "object" /\ IsTimestamp(df, col)
  /\ \E col \in Range(df.cols) : df.dtype[col] = "object"
  /\ Len(df.rows) > 1

\* C7: numeric set.  A column is in numeric_cols exactly when its type is an
\* integer or floating-point type, of any width.
NumericTypes == {"int64", "float64", "uint64"}
C7_NumericSet ==
  Classified =>
    \A col \in Range(df.cols) :
      col \in Range(numeric_cols) <=> uploaded.dtype[col] \in NumericTypes

\* C8: passthrough.  With an existing column as the animation driver the
\* renderer's dataset is df as classified: the same columns, no frame column,
\* the same rows in the original order (even under a timestamp x column), and
\* the selected column is the animation column; the mode follows the
\* selection made for the request.
C8_Passthrough ==
  /\ pc \in {"render", "done"} /\ animation_col # None =>
       (animation_frame # None <=> animation_col = animation_frame)
  /\ PassedThrough =>
       /\ animation_col = animation_frame
       /\ plot_ready_df = df
       /\ plot_ready_df.cols = uploaded.cols
       /\ FrameColumn \notin Range(plot_ready_df.cols)
       /\ Len(plot_ready_df.rows) = Len(uploaded.rows)
       /\ \A i \in DOMAIN plot_ready_df.rows :
            /\ plot_ready_df.rows[i].idx = i - 1
            /\ \A c \in Range(uploaded.cols) :
                 uploaded.dtype[c] # "object" =>
                   plot_ready_df.rows[i].v[c] = uploaded.rows[i].v[c]
       /\ px_call.called => (px_call.data = plot_ready_df
                             /\ px_call.animation_frame = animation_frame)

C8_Witness ==
  /\ PassedThrough
  /\ px_call.called
  /\ IsTimestamp(df, x_col)
  /\ Len(df.rows) >= 2
  /\ Key(df.rows[1], x_col) > Key(df.rows[2], x_col)

\* C9: column existence.  Whenever plotly express is called, the x column,
\* every y column and the animation column are columns of the dataset it is
\* given.
C9_SelectedColumnsExist ==
  px_call.called => Selected(px_call) \subseteq Range(px_call.data.cols)

\* C10: FrameSpec invariant.  The slider's default lies in its range, and its
\* default and every value of its range, hence the start row handed on, lie
\* in 1..len(df).
C10_StartRowInRange ==
  pc = "prepare" =>
    LET n == Len(df.rows)
    IN /\ slider.min_value <= slider.value /\ slider.value <= slider.max_value
       /\ 1 <= slider.value /\ slider.value <= n
       /\ \A v \in slider.min_value..slider.max_value : 1 <= v /\ v <= n
       /\ 1 <= start_point /\ start_point <= n
====
